---- MODULE Spec2Model ----
(***************************************************************************)
(* Model of the scalar autograd engine of comp_graph_node.py (class Node)  *)
(* and of the network layer of neural_network.py (Neuron, Layer, MLP).     *)
(*                                                                         *)
(* A Node object is identified by its position in `heap`, the sequence of  *)
(* all Node objects in creation order.  Scalars and gradients are exact    *)
(* rationals <<numerator, denominator>> in lowest terms (denominator > 0); *)
(* floating-point rounding is not modelled.                                *)
(***************************************************************************)
EXTENDS Integers, Sequences, FiniteSets, TLC

VARIABLES
    heap,                 \* the Node objects, in creation order
    topological_sorted,   \* the list built by the last backward_propagation
    calls,                \* the seed and the _backward invocations of the last pass
    root,                 \* the node the last pass started from (0: none yet)
    passes,               \* the number of passes run so far
    call,                 \* the client's last call
    result,               \* the node it returned (0: none)
    err,                  \* the exception it raised ("none": it returned)
    net,                  \* the MLP: its layers, each a list of neurons
    output                \* what the last call of the MLP returned

vars == <<heap, topological_sorted, calls, root, passes, call, result, err, net, output>>

(***************************************************************************)
(* Bounds of the model.                                                    *)
(***************************************************************************)
MaxNodes == 6
MaxLeaves == 3
MaxPasses == 1
MaxAbs == 10
MaxPerOp == 1
OpsMaxNodes == 6
OpsMaxOps == 2
OpsMaxLeaves == 1
OpsMaxPasses == 1
OpsMaxAbs == 30
ExpMax == 2
OpsLeafVals == {0, 2}
ConstVals == {0, 2}
Exponents == {-1, 3}
MaxInputs == 1
MaxLayers == 2
MaxWidth == 2
MaxForward == 2
WeightVals == {<<-1, 1>>, <<1, 2>>}
InputVals == {-1, 2}
LeafVals == {-3, 2, 10}
CallsMaxNodes == 3
CallsMaxLeaves == 2
CallsMaxPasses == 1
MaxOthers == 2
RepMaxNodes == 4
RepMaxLeaves == 2
RepMaxPasses == 2
RepLeafVals == {2, 3}
CallsLeafVals == {<<0, 1>>, <<2, 1>>, <<-1, 1>>, <<1, 2>>}

(***************************************************************************)
(* Rational arithmetic: the Python numbers held by scalar and gradient.    *)
(***************************************************************************)
Abs(x) == IF x < 0 THEN -x ELSE x

RECURSIVE GCD(_, _)
GCD(a, b) == IF b = 0 THEN a ELSE GCD(b, a % b)

Rat(n, d) ==
    LET g == GCD(Abs(n), Abs(d))
        s == IF d < 0 THEN -1 ELSE 1
    IN  <<(s * n) \div g, (s * d) \div g>>

R(n) == <<n, 1>>
ZERO == R(0)
ONE == R(1)
RAdd(x, y) == Rat(x[1] * y[2] + y[1] * x[2], x[2] * y[2])
RMul(x, y) == Rat(x[1] * y[1], x[2] * y[2])
RSub(x, y) == Rat(x[1] * y[2] - y[1] * x[2], x[2] * y[2])
RLt(x, y) == x[1] * y[2] < y[1] * x[2]
RInv(x) == Rat(x[2], x[1])
IsInt(x) == x[2] = 1

\* x ** p for an integer exponent p (x # 0 when p < 0)
RECURSIVE RPow(_, _)
RPow(x, p) ==
    IF p = 0 THEN ONE
    ELSE IF p < 0 THEN RInv(RPow(x, -p))
    ELSE RMul(x, RPow(x, p - 1))

\* np.exp on the integers -ExpMax..ExpMax: exp(0) = 1 exactly, and the rational
\* 8/3 stands for e, so that exp(n) = (8/3)^n is positive and increasing.
npExp(x) == RPow(<<8, 3>>, x[1])

(***************************************************************************)
(* The other Python values an operand can hold.  A str of k characters is  *)
(* <<k, 0>> and a list of k items <<k, -1>>: only the kind and the length  *)
(* of a sequence matter to + and *.  A number with denominator 1 is an     *)
(* int, any other number a float.                                          *)
(***************************************************************************)
IsNum(x) == x[2] > 0
IsPyInt(x) == x[2] = 1
StrValue(k) == <<k, 0>>
ListValue(k) == <<k, -1>>

\* x + y: the sum of two numbers, the concatenation of two sequences of the
\* same kind, and TypeError otherwise.
CanAdd(x, y) == (IsNum(x) /\ IsNum(y)) \/ (~IsNum(x) /\ x[2] = y[2])
PyAdd(x, y) == IF IsNum(x) THEN RAdd(x, y) ELSE <<x[1] + y[1], x[2]>>

\* x * y: the product of two numbers, the repetition of a sequence by an int
\* (empty for a count below 1), and TypeError otherwise.
CanMul(x, y) ==
    \/ IsNum(x) /\ IsNum(y)
    \/ IsPyInt(x) /\ ~IsNum(y)
    \/ ~IsNum(x) /\ IsPyInt(y)
Repeat(n, q) == <<(IF n[1] < 0 THEN 0 ELSE n[1]) * q[1], q[2]>>
PyMul(x, y) ==
    IF IsNum(x) /\ IsNum(y) THEN RMul(x, y)
    ELSE IF IsNum(x) THEN Repeat(x, y) ELSE Repeat(y, x)

\* The value of a singleton.  Eval({F(x) : x \in {e}}) is F(e) with e evaluated
\* once, the way Python evaluates an expression before it binds the name.
Eval(S) == CHOOSE x \in S : TRUE

(***************************************************************************)
(* Node.__init__: a fresh object with gradient 0, the no-op backward rule  *)
(* and the SET of its children.  The backward rule is the closure stored   *)
(* in _backward: its kind and the objects it captured (self, b, exponent). *)
(***************************************************************************)
NoRule == [kind |-> "none", self |-> 0, b |-> 0, p |-> 0]

Node(scalar, children, math_operator) ==
    [scalar |-> scalar, math_operator |-> math_operator, gradient |-> ZERO,
     backward |-> NoRule, previous |-> children]

Ok(h, r) == [heap |-> h, res |-> r, err |-> "none"]
Raise(h, e) == [heap |-> h, res |-> 0, err |-> e]

\* An operand of an operator: a Node object, a plain number, a str or a list.
NodeRef(i) == [t |-> "Node", v |-> i]
Num(x) == [t |-> "num", v |-> x]
Str(k) == [t |-> "str", v |-> StrValue(k)]
List(xs) == [t |-> "list", v |-> xs]
NoValue == [t |-> "none", v |-> 0]

\* The Python value of an operand that is not a Node.
PyValue(b) == IF b.t = "list" THEN ListValue(Len(b.v)) ELSE b.v

\* b = b if isinstance(b, Node) else Node(b)
Wrap(h, b) ==
    IF b.t = "Node" THEN Ok(h, b.v)
    ELSE Ok(Append(h, Node(PyValue(b), {}, "")), Len(h) + 1)

\* Mutant: the result is also recorded in the operand set of each operand.
NewRes_backlinked(h, scalar, children, tag, rule) ==
    Ok([i \in 1..(Len(h) + 1) |->
          IF i = Len(h) + 1 THEN [Node(scalar, children, tag) EXCEPT !.backward = rule]
          ELSE IF i \in children THEN [h[i] EXCEPT !.previous = @ \cup {Len(h) + 1}]
          ELSE h[i]], Len(h) + 1)

\* res = Node(..., (self, b), tag); res._backward = _backward; return res
NewRes(h, scalar, children, tag, rule) ==
    Ok(Append(h, [Node(scalar, children, tag) EXCEPT !.backward = rule]), Len(h) + 1)

\* An exception raised by self.scalar + b.scalar leaves the heap as it was: the
\* leaf that wrapped b is referenced by nothing.
__add__(h, self, b) ==
    LET w == Wrap(h, b) IN
    IF ~CanAdd(w.heap[self].scalar, w.heap[w.res].scalar) THEN Raise(h, "TypeError")
    ELSE NewRes(w.heap, PyAdd(w.heap[self].scalar, w.heap[w.res].scalar), {self, w.res}, "+",
                [kind |-> "add", self |-> self, b |-> w.res, p |-> 0])

__mul__(h, self, b) ==
    LET w == Wrap(h, b) IN
    IF ~CanMul(w.heap[self].scalar, w.heap[w.res].scalar) THEN Raise(h, "TypeError")
    ELSE NewRes(w.heap, PyMul(w.heap[self].scalar, w.heap[w.res].scalar), {self, w.res}, "*",
                [kind |-> "mul", self |-> self, b |-> w.res, p |-> 0])

__neg__(h, self) == __mul__(h, self, Num(R(-1)))

\* self + (-b): -b is Node.__neg__ for a Node and the negated number otherwise
__sub__(h, self, b) ==
    IF b.t = "Node"
    THEN LET n == __neg__(h, b.v) IN __add__(n.heap, self, NodeRef(n.res))
    ELSE __add__(h, self, Num(RSub(ZERO, b.v)))

relu(h, self) ==
    NewRes(h, IF RLt(h[self].scalar, ZERO) THEN ZERO ELSE h[self].scalar, {self}, "ReLU",
           [kind |-> "relu", self |-> self, b |-> 0, p |-> 0])

sigmoid(h, self) ==
    NewRes(h, RInv(RAdd(ONE, npExp(RSub(ZERO, h[self].scalar)))), {self}, "Sigmoid",
           [kind |-> "sigmoid", self |-> self, b |-> 0, p |-> 0])

\* for xi in x: sum_softmax = np.exp(xi.scalar)
RECURSIVE sum_softmax(_, _, _)
sum_softmax(h, x, acc) ==
    IF x = <<>> THEN acc ELSE sum_softmax(h, Tail(x), npExp(h[Head(x)].scalar))

\* Node.softmax: the number np.exp(self.scalar) / sum_softmax (x is not empty)
softmax(h, self, x) == RMul(npExp(h[self].scalar), RInv(sum_softmax(h, x, ZERO)))

\* Mutant: the exponent is wrapped in a leaf as an operand of + or * is.
_pow__wrapping(h, self, b) ==
    IF b.t # "num"
    THEN NewRes(Wrap(h, b).heap, h[self].scalar, {self, Wrap(h, b).res}, "**",
                [kind |-> "pow", self |-> self, b |-> 0, p |-> 1])
    ELSE IF h[self].scalar = ZERO /\ b.v[1] < 0 THEN Raise(h, "ZeroDivisionError")
    ELSE NewRes(h, RPow(h[self].scalar, b.v[1]), {self}, "**" \o ToString(b.v[1]),
                [kind |-> "pow", self |-> self, b |-> 0, p |-> b.v[1]])

\* The method the class names _pow__ (one leading underscore).  An exponent is
\* an integer here; the tag is the text "**" followed by the exponent.
_pow__(h, self, b) ==
    IF b.t # "num" THEN Raise(h, "AssertionError")
    ELSE IF h[self].scalar = ZERO /\ b.v[1] < 0 THEN Raise(h, "ZeroDivisionError")
    ELSE NewRes(h, RPow(h[self].scalar, b.v[1]), {self}, "**" \o ToString(b.v[1]),
                [kind |-> "pow", self |-> self, b |-> 0, p |-> b.v[1]])

\* The names class Node defines.
NodeMethods ==
    {"__init__", "__add__", "__mul__", "_pow__", "__neg__", "__radd__", "__rmul__",
     "__sub__", "__rsub__", "__truediv__", "__rtruediv__", "__gt__", "__lt__", "__ge__",
     "__le__", "__repr__", "relu", "sigmoid", "softmax", "backward_propagation"}

\* Python's evaluation of x ** y.  With a Node on the left the interpreter calls
\* type(x).__pow__; a number's __rpow__ does not accept a Node, so without that
\* method the expression raises TypeError.  Between numbers it is the number.
PowExpr(h, x, y) ==
    IF x.t = "Node"
    THEN IF "__pow__" \in NodeMethods
         THEN LET r == _pow__(h, x.v, y)
              IN  IF r.err # "none" THEN r ELSE Ok(r.heap, NodeRef(r.res))
         ELSE Raise(h, "TypeError")
    ELSE IF x.v = ZERO /\ y.v[1] < 0 THEN Raise(h, "ZeroDivisionError")
    ELSE Ok(h, Num(RPow(x.v, y.v[1])))

\* x * y where x is a Node or a number and y a Node: Node.__mul__, or
\* Node.__rmul__ (self * b) when the left operand is a number.
MulExpr(h, x, y) == IF x.t = "Node" THEN __mul__(h, x.v, y) ELSE __mul__(h, y.v, x)

__radd__(h, self, b) == __add__(h, self, b)
__rmul__(h, self, b) == __mul__(h, self, b)

\* b + (-self) with a number b: the number's __add__ defers to Node.__radd__
__rsub__(h, self, b) ==
    LET n == __neg__(h, self) IN __radd__(n.heap, n.res, b)

\* self * b ** (-1)
__truediv__(h, self, b) ==
    LET q == PowExpr(h, b, Num(R(-1)))
    IN  IF q.err # "none" THEN q ELSE __mul__(q.heap, self, q.res)

\* b * self ** (-1)
__rtruediv__(h, self, b) ==
    LET q == PowExpr(h, NodeRef(self), Num(R(-1)))
    IN  IF q.err # "none" THEN q ELSE MulExpr(q.heap, b, q.res)

(***************************************************************************)
(* The _backward closures: node n's rule, run on heap h.                   *)
(***************************************************************************)
AddGrad(h, i, x) == [h EXCEPT ![i].gradient = RAdd(@, x)]

\* Mutant: one contribution per element of the operand set (a + a counts a once).
add_backward_per_child(h, n) ==
    LET c == h[n].backward
        h1 == AddGrad(h, c.self, h[n].gradient)
    IN  IF c.b = c.self THEN h1 ELSE AddGrad(h1, c.b, h1[n].gradient)

add_backward(h, n) ==
    LET c == h[n].backward
        h1 == AddGrad(h, c.self, h[n].gradient)
    IN  AddGrad(h1, c.b, h1[n].gradient)

\* Mutant: each operand scaled by its own value instead of the other's.
mul_backward_uncrossed(h, n) ==
    LET c == h[n].backward
        h1 == AddGrad(h, c.self, RMul(h[c.self].scalar, h[n].gradient))
    IN  AddGrad(h1, c.b, RMul(h1[c.b].scalar, h1[n].gradient))

mul_backward(h, n) ==
    LET c == h[n].backward
        h1 == AddGrad(h, c.self, RMul(h[c.b].scalar, h[n].gradient))
    IN  AddGrad(h1, c.b, RMul(h1[c.self].scalar, h1[n].gradient))

\* Mutant: the gate also opens at 0.
relu_backward_open_at_zero(h, n) ==
    LET c == h[n].backward
    IN  AddGrad(h, c.self, IF ~RLt(h[n].scalar, ZERO) THEN h[n].gradient ELSE ZERO)

relu_backward(h, n) ==
    LET c == h[n].backward
    IN  AddGrad(h, c.self, IF RLt(ZERO, h[n].scalar) THEN h[n].gradient ELSE ZERO)

\* self.gradient += (b * self.scalar ** (b - 1)) * res.gradient
pow_backward(h, n) ==
    LET c == h[n].backward
    IN  AddGrad(h, c.self,
                RMul(RMul(R(c.p), RPow(h[c.self].scalar, c.p - 1)), h[n].gradient))

\* self.gradient += res.scalar * (1 - res.scalar)
sigmoid_backward(h, n) ==
    LET c == h[n].backward
    IN  AddGrad(h, c.self, RMul(h[n].scalar, RSub(ONE, h[n].scalar)))

_backward(h, n) ==
    CASE h[n].backward.kind = "none" -> h
      [] h[n].backward.kind = "add" -> add_backward(h, n)
      [] h[n].backward.kind = "mul" -> mul_backward(h, n)
      [] h[n].backward.kind = "relu" -> relu_backward(h, n)
      [] h[n].backward.kind = "pow" -> pow_backward(h, n)
      [] h[n].backward.kind = "sigmoid" -> sigmoid_backward(h, n)

(***************************************************************************)
(* Node.backward_propagation.  Iterating the set i._previous visits its    *)
(* elements in an order the program does not fix: nodes in `desc` iterate  *)
(* their children in descending creation order, the others ascending.      *)
(***************************************************************************)
RECURSIVE SortedSeq(_)
SortedSeq(S) ==
    IF S = {} THEN <<>>
    ELSE LET m == CHOOSE x \in S : \A y \in S : x <= y
         IN  <<m>> \o SortedSeq(S \ {m})

Reverse(s) == [k \in 1..Len(s) |-> s[Len(s) + 1 - k]]

IterOrder(S, d) == IF d THEN Reverse(SortedSeq(S)) ELSE SortedSeq(S)

RECURSIVE build_topological_sort(_, _, _, _), VisitChildren(_, _, _, _)
\* Mutant: the node is appended before its children are visited.
build_topological_sort_preorder(h, i, st, desc) ==
    IF i \in st.visited THEN st
    ELSE VisitChildren(h, IterOrder(h[i].previous, i \in desc),
                       [st EXCEPT !.visited = @ \cup {i}, !.sorted = Append(@, i)], desc)

build_topological_sort(h, i, st, desc) ==
    IF i \in st.visited THEN st
    ELSE Eval({[s2 EXCEPT !.sorted = Append(@, i)] :
                 s2 \in {VisitChildren(h, IterOrder(h[i].previous, i \in desc),
                                       [st EXCEPT !.visited = @ \cup {i}], desc)}})
\* Mutant: the loop over the children ends at the first child already visited.
VisitChildren_until_visited(h, children, st, desc) ==
    IF children = <<>> \/ Head(children) \in st.visited THEN st
    ELSE Eval({VisitChildren(h, Tail(children), s1, desc) :
                 s1 \in {build_topological_sort(h, Head(children), st, desc)}})

VisitChildren(h, children, st, desc) ==
    IF children = <<>> THEN st
    ELSE Eval({VisitChildren(h, Tail(children), s1, desc) :
                 s1 \in {build_topological_sort(h, Head(children), st, desc)}})

\* for node in reversed(topological_sorted): node._backward()
\* `log` records every invocation with the gradient the node holds when its rule runs.
RECURSIVE Propagate(_, _, _)
Propagate(h, order, log) ==
    IF order = <<>> THEN [heap |-> h, calls |-> log]
    ELSE Eval({Propagate(h1, Tail(order), log1) :
                 h1 \in {_backward(h, Head(order))},
                 log1 \in {Append(log, [ev |-> "call", node |-> Head(order),
                                        gradient |-> h[Head(order)].gradient])}})

Seed(h, self) == [h EXCEPT ![self].gradient = ONE]

\* Mutant: the rules run in build order, operands first.
PropagationOrder_forward(sorted) == sorted

PropagationOrder(sorted) == Reverse(sorted)

\* The two phases: the ordering, then the seed and the rules in reverse order.
Ordering(h, self, desc) ==
    build_topological_sort(h, self, [visited |-> {}, sorted |-> <<>>], desc)

\* Mutant: the pass zeroes the gradient of every node it ordered before seeding.
Propagation_resetting(h, self, sorted) ==
    Eval({Propagate(h1, order,
                    <<[ev |-> "seed", node |-> self, gradient |-> h1[self].gradient]>>) :
            h1 \in {Seed([i \in 1..Len(h) |->
                             IF \E k \in 1..Len(sorted) : sorted[k] = i
                             THEN [h[i] EXCEPT !.gradient = ZERO] ELSE h[i]], self)},
            order \in {PropagationOrder(sorted)}})

Propagation(h, self, sorted) ==
    Eval({Propagate(h1, order,
                    <<[ev |-> "seed", node |-> self, gradient |-> h1[self].gradient]>>) :
            h1 \in {Seed(h, self)}, order \in {PropagationOrder(sorted)}})

\* Mutant: the traversal consumes each visited node's operand set.
backward_propagation_destructive(h, self, desc) ==
    Eval({Eval({[heap |-> [i \in 1..Len(h) |->
                             IF i \in st.visited THEN [p.heap[i] EXCEPT !.previous = {}]
                             ELSE p.heap[i]],
                 topological_sorted |-> st.sorted, calls |-> p.calls] :
                  p \in {Propagation(h, self, st.sorted)}}) :
            st \in {Ordering(h, self, desc)}})

backward_propagation(h, self, desc) ==
    Eval({Eval({[heap |-> p.heap, topological_sorted |-> st.sorted, calls |-> p.calls] :
                  p \in {Propagation(h, self, st.sorted)}}) :
            st \in {Ordering(h, self, desc)}})

(***************************************************************************)
(* neural_network.py.  A value passed to or returned by a call is a Node   *)
(* (NodeRef), a number (Num) or a Python list of such values (List).       *)
(***************************************************************************)
RECURSIVE SeqSum(_)
SeqSum(xs) == IF xs = <<>> THEN 0 ELSE Head(xs) + SeqSum(Tail(xs))

\* net_dim = [n_inputs] + n_outputs
NetDim(n_inputs, n_outputs) == <<n_inputs>> \o n_outputs

\* The parameters created before neuron j of layer i: MLP.__init__ builds the
\* layers in order, Layer.__init__ its neurons in order, and Neuron.__init__
\* creates the n_inputs weights and then the bias.
ParamsBefore(net_dim, i, j) ==
    SeqSum([l \in 1..(i - 1) |-> (net_dim[l] + 1) * net_dim[l + 1]]) + (j - 1) * (net_dim[i] + 1)

\* Neuron(n_inputs, non_linear): w, b and the flag
Neuron(first, n_inputs, non_linear) ==
    [w |-> [k \in 1..n_inputs |-> first + k], b |-> first + n_inputs + 1,
     non_linear |-> non_linear]

\* Layer(n_inputs, n_output, non_linear=...)
Layer(net_dim, i, non_linear) ==
    [j \in 1..net_dim[i + 1] |-> Neuron(ParamsBefore(net_dim, i, j), net_dim[i], non_linear)]

\* MLP(n_inputs, n_outputs): every layer but the last is non-linear
MLP(n_inputs, n_outputs) ==
    [i \in 1..Len(n_outputs) |->
        Layer(NetDim(n_inputs, n_outputs), i, i # Len(n_outputs))]

\* Mutant: the bias is left out.
Neuron_parameters_weights(nr) == nr.w

\* return self.w + [self.b]
Neuron_parameters(nr) == Append(nr.w, nr.b)

RECURSIVE Flatten(_)
Flatten(xss) == IF xss = <<>> THEN <<>> ELSE Head(xss) \o Flatten(Tail(xss))

Layer_parameters(layer) == Flatten([j \in 1..Len(layer) |-> Neuron_parameters(layer[j])])
MLP_parameters(layers) == Flatten([i \in 1..Len(layers) |-> Layer_parameters(layers[i])])

\* Mutant: only the first parameter is reset.
clear_gradient_first(h, params) ==
    [i \in 1..Len(h) |->
        IF params # <<>> /\ params[1] = i THEN [h[i] EXCEPT !.gradient = ZERO] ELSE h[i]]

\* Mutant: a node that has operands keeps its gradient.
clear_gradient_leaves_only(h, params) ==
    [i \in 1..Len(h) |->
        IF h[i].previous = {} /\ \E k \in 1..Len(params) : params[k] = i
        THEN [h[i] EXCEPT !.gradient = ZERO]
        ELSE h[i]]

\* Module.clear_gradient
clear_gradient(h, params) ==
    [i \in 1..Len(h) |->
        IF \E k \in 1..Len(params) : params[k] = i THEN [h[i] EXCEPT !.gradient = ZERO]
        ELSE h[i]]

\* sum((wi*xi for wi,xi in zip(self.w, x)), self.b): the terms are produced one
\* at a time, each added to the running total (Node.__add__) as it is produced;
\* zip stops at the shorter of the two.
RECURSIVE WeightedSum(_, _, _, _, _)
WeightedSum(h, nr, xs, k, acc) ==
    IF k > Len(nr.w) \/ k > Len(xs) THEN Ok(h, acc)
    ELSE Eval({Eval({WeightedSum(a.heap, nr, xs, k + 1, a.res) :
                       a \in {__add__(m.heap, acc, NodeRef(m.res))}}) :
                 m \in {__mul__(h, nr.w[k], xs[k])}})

\* Neuron.__call__: zip needs an iterable, and a Node is not one.
Neuron_call(h, nr, x) ==
    IF x.t # "list" THEN Raise(h, "TypeError")
    ELSE Eval({IF nr.non_linear THEN relu(activation.heap, activation.res) ELSE activation :
                 activation \in {WeightedSum(h, nr, x.v, 1, nr.b)}})

\* res = [neuron(x) for neuron in self.neurons]
RECURSIVE NeuronResults(_, _, _, _, _)
NeuronResults(h, layer, x, j, res) ==
    IF j > Len(layer) THEN [heap |-> h, res |-> res, err |-> "none"]
    ELSE Eval({IF r.err # "none" THEN r
               ELSE NeuronResults(r.heap, layer, x, j + 1, Append(res, NodeRef(r.res))) :
                 r \in {Neuron_call(h, layer[j], x)}})

\* Layer.__call__: return res[0] if len(res) == 1 else res
Layer_call(h, layer, x) ==
    Eval({IF r.err # "none" THEN r
          ELSE [r EXCEPT !.res = IF Len(r.res) = 1 THEN r.res[1] ELSE List(r.res)] :
            r \in {NeuronResults(h, layer, x, 1, <<>>)}})

\* MLP.__call__: for layer in self.layers: x = layer(x)
RECURSIVE MLP_call(_, _, _, _)
MLP_call(h, layers, i, x) ==
    IF i > Len(layers) THEN [heap |-> h, res |-> x, err |-> "none"]
    ELSE Eval({IF r.err # "none" THEN r ELSE MLP_call(r.heap, layers, i + 1, r.res) :
                 r \in {Layer_call(h, layers[i], x)}})

(***************************************************************************)
(* Specification of the expression engine: the client holds some leaf      *)
(* nodes, combines nodes with operators and differentiates from any node.  *)
(***************************************************************************)
Nodes == 1..Len(heap)

\* The nodes reachable from r through the operand sets: the least set that
\* holds r and the operands of its elements.
RECURSIVE Closure(_, _)
Closure(h, S) ==
    Eval({IF T = S THEN S ELSE Closure(h, T) : T \in {S \cup UNION {h[i].previous : i \in S}}})

Reach(h, r) == Closure(h, {r})

\* The client's leaves, created in nondecreasing order of value: an object is
\* its creation index, so any other creation order only renames the leaves.
LeafHeaps ==
    {h \in UNION {[1..k -> {Node(R(v), {}, "") : v \in LeafVals}] : k \in 1..MaxLeaves} :
        \A i \in 1..(Len(h) - 1) : ~RLt(h[i + 1].scalar, h[i].scalar)}

Init ==
    /\ heap \in LeafHeaps
    /\ topological_sorted = <<>>
    /\ calls = <<>>
    /\ root = 0
    /\ passes = 0
    /\ call = [op |-> "Node"]
    /\ result = 0
    /\ err = "none"
    /\ net = <<>>
    /\ output = NoValue

\* Python numbers are unbounded: the model explores scalars up to MaxAbs.
InRange(x) == Abs(x[1]) <= MaxAbs /\ x[2] <= MaxAbs

\* The programs explored apply each primitive operator at most MaxPerOp times
\* and create at most MaxNodes objects.
OpCount(h, kind) == Cardinality({i \in 1..Len(h) : h[i].backward.kind = kind})
Room(k) == Len(heap) + k <= MaxNodes
Fresh(kind) == OpCount(heap, kind) < MaxPerOp

Call(op, self, arg) == [op |-> op, self |-> self, arg |-> arg]

Return(out, c) ==
    /\ \A i \in 1..Len(out.heap) : InRange(out.heap[i].scalar)
    /\ call' = c
    /\ heap' = out.heap
    /\ result' = out.res
    /\ err' = out.err
    /\ UNCHANGED <<topological_sorted, calls, root, passes, net, output>>

Add == Room(1) /\ Fresh("add") /\ \E a, b \in Nodes : Return(__add__(heap, a, NodeRef(b)), Call("+", a, NodeRef(b)))
Mul == Room(1) /\ Fresh("mul") /\ \E a, b \in Nodes : Return(__mul__(heap, a, NodeRef(b)), Call("*", a, NodeRef(b)))
Neg == Room(2) /\ Fresh("mul") /\ \E a \in Nodes : Return(__neg__(heap, a), Call("neg", a, 0))
Sub ==
    /\ Room(3) /\ Fresh("mul") /\ Fresh("add")
    /\ \E a, b \in Nodes : Return(__sub__(heap, a, NodeRef(b)), Call("-", a, NodeRef(b)))
Relu == Room(1) /\ Fresh("relu") /\ \E a \in Nodes : Return(relu(heap, a), Call("relu", a, 0))

\* The nodes below r whose operand set has several elements to iterate.
Binary(r) == {i \in Reach(heap, r) : Cardinality(heap[i].previous) > 1}

\* r.backward_propagation(), with the nodes in `desc` iterating their operand
\* set in descending order, for a desc among `orders`
Pass(r, orders) ==
    \E desc \in orders : \E out \in {backward_propagation(heap, r, desc)} :
        /\ heap' = out.heap
        /\ topological_sorted' = out.topological_sorted
        /\ calls' = out.calls
        /\ root' = r
        /\ passes' = passes + 1
        /\ call' = Call("backward_propagation", r, 0)
        /\ result' = 0
        /\ err' = "none"
        /\ UNCHANGED <<net, output>>

Backward == passes < MaxPasses /\ \E r \in Nodes : Pass(r, SUBSET Binary(r))

Next == Add \/ Mul \/ Neg \/ Sub \/ Relu \/ Backward

Spec == Init /\ [][Next]_vars

(***************************************************************************)
(* Specification of the whole operator surface of Node: operators between  *)
(* nodes and between a node and a number on either side, power, division,  *)
(* the activations, and backward_propagation.                              *)
(***************************************************************************)
OpsInit ==
    /\ heap \in UNION {[1..k -> {Node(R(v), {}, "") : v \in OpsLeafVals}] : k \in 1..OpsMaxLeaves}
    /\ topological_sorted = <<>>
    /\ calls = <<>>
    /\ root = 0
    /\ passes = 0
    /\ call = [op |-> "Node"]
    /\ result = 0
    /\ err = "none"
    /\ net = <<>>
    /\ output = NoValue

OpsInRange(x) == Abs(x[1]) <= OpsMaxAbs /\ x[2] <= OpsMaxAbs

\* The call returns a node or raises; a raised exception leaves no new object
\* and, uncaught, ends the client program.  The programs explored create at most
\* OpsMaxNodes objects with at most OpsMaxOps applications of primitive operators.
Running == err = "none"

OpsReturn(out, c) ==
    /\ Running
    /\ Len(out.heap) <= OpsMaxNodes
    /\ Cardinality({i \in 1..Len(out.heap) : out.heap[i].backward.kind # "none"}) <= OpsMaxOps
    /\ \A i \in 1..Len(out.heap) : OpsInRange(out.heap[i].scalar)
    /\ call' = c
    /\ heap' = out.heap
    /\ result' = out.res
    /\ err' = out.err
    /\ UNCHANGED <<topological_sorted, calls, root, passes, net, output>>

Consts == {Num(R(c)) : c \in ConstVals}
NodeRefs == {NodeRef(i) : i \in Nodes}

OpAdd == \E a \in Nodes, b \in NodeRefs \cup Consts : OpsReturn(__add__(heap, a, b), Call("+", a, b))
OpRAdd == \E a \in Nodes, b \in Consts : OpsReturn(__radd__(heap, a, b), Call("r+", a, b))
OpMul == \E a \in Nodes, b \in NodeRefs \cup Consts : OpsReturn(__mul__(heap, a, b), Call("*", a, b))
OpRMul == \E a \in Nodes, b \in Consts : OpsReturn(__rmul__(heap, a, b), Call("r*", a, b))
OpNeg == \E a \in Nodes : OpsReturn(__neg__(heap, a), Call("neg", a, 0))
OpSub == \E a \in Nodes, b \in NodeRefs \cup Consts : OpsReturn(__sub__(heap, a, b), Call("-", a, b))
OpRSub == \E a \in Nodes, b \in Consts : OpsReturn(__rsub__(heap, a, b), Call("r-", a, b))
OpRelu == \E a \in Nodes : OpsReturn(relu(heap, a), Call("relu", a, 0))

OpSigmoid ==
    \E a \in Nodes :
        /\ IsInt(heap[a].scalar) /\ Abs(heap[a].scalar[1]) <= ExpMax
        /\ OpsReturn(sigmoid(heap, a), Call("sigmoid", a, 0))

\* a ** p
OpPow ==
    \E a \in Nodes, p \in Exponents :
        LET out == PowExpr(heap, NodeRef(a), Num(R(p)))
        IN  OpsReturn(IF out.err # "none" THEN Raise(out.heap, out.err)
                      ELSE Ok(out.heap, out.res.v), Call("**", a, Num(R(p))))

\* a._pow__(p)
OpPowMethod ==
    \E a \in Nodes, p \in Exponents :
        OpsReturn(_pow__(heap, a, Num(R(p))), Call("_pow__", a, Num(R(p))))

\* a / b and a / c
OpDiv ==
    \E a \in Nodes, b \in NodeRefs \cup Consts :
        OpsReturn(__truediv__(heap, a, b), Call("/", a, b))

\* c / a
OpRDiv ==
    \E a \in Nodes, b \in Consts :
        OpsReturn(__rtruediv__(heap, a, b), Call("r/", a, b))

OpBackward == Running /\ passes < OpsMaxPasses /\ \E r \in Nodes : Pass(r, SUBSET Binary(r))

OpsNext ==
    \/ OpAdd \/ OpRAdd \/ OpMul \/ OpRMul \/ OpNeg \/ OpSub \/ OpRSub
    \/ OpRelu \/ OpSigmoid \/ OpPow \/ OpPowMethod \/ OpDiv \/ OpRDiv
    \/ OpBackward

SpecOps == OpsInit /\ [][OpsNext]_vars

(***************************************************************************)
(* Specification of the calls with operands of any type: +, * and their    *)
(* right-forms with a node, a number, a str or a list; power with any      *)
(* exponent; softmax; and backward_propagation.  A program that has        *)
(* obtained a node whose scalar is not a number, or a softmax score, is     *)
(* explored no further.                                                    *)
(***************************************************************************)
CallsInit ==
    /\ heap \in UNION {[1..k -> {Node(v, {}, "") : v \in CallsLeafVals}] : k \in 1..CallsMaxLeaves}
    /\ topological_sorted = <<>>
    /\ calls = <<>>
    /\ root = 0
    /\ passes = 0
    /\ call = [op |-> "Node"]
    /\ result = 0
    /\ err = "none"
    /\ net = <<>>
    /\ output = NoValue

WellFormed(h) == \A i \in 1..Len(h) : IsNum(h[i].scalar)

CallsReturn(out, c) ==
    /\ Len(out.heap) <= CallsMaxNodes
    /\ call' = c
    /\ heap' = out.heap
    /\ result' = out.res
    /\ err' = out.err
    /\ UNCHANGED <<topological_sorted, calls, root, passes, net, output>>

NumOperands == {Num(R(2)), Num(<<1, 2>>)}
BadOperands == {Str(2), List(<<Num(R(1)), Num(R(2))>>)}
Exponent == {Num(R(2))} \cup BadOperands \cup NodeRefs
Going == Running /\ WellFormed(heap) /\ output = NoValue

CallAdd ==
    /\ Going
    /\ \E a \in Nodes, b \in NodeRefs \cup NumOperands \cup BadOperands :
          CallsReturn(__add__(heap, a, b), Call("+", a, b))
CallRAdd ==
    /\ Going
    /\ \E a \in Nodes, b \in NumOperands \cup BadOperands :
          CallsReturn(__radd__(heap, a, b), Call("r+", a, b))
CallMul ==
    /\ Going
    /\ \E a \in Nodes, b \in NodeRefs \cup NumOperands \cup BadOperands :
          CallsReturn(__mul__(heap, a, b), Call("*", a, b))
CallRMul ==
    /\ Going
    /\ \E a \in Nodes, b \in NumOperands \cup BadOperands :
          CallsReturn(__rmul__(heap, a, b), Call("r*", a, b))

\* a ** b
CallPow ==
    /\ Going
    /\ \E a \in Nodes, b \in Exponent :
          \E out \in {PowExpr(heap, NodeRef(a), b)} :
             CallsReturn(IF out.err # "none" THEN Raise(out.heap, out.err)
                         ELSE Ok(out.heap, out.res.v), Call("**", a, b))

\* a._pow__(b)
CallPowMethod ==
    /\ Going
    /\ \E a \in Nodes, b \in Exponent :
          CallsReturn(_pow__(heap, a, b), Call("_pow__", a, b))

\* a.softmax(x) for a non-empty list x of nodes: the score is a plain number
NodeLists == UNION {[1..k -> Nodes] : k \in 1..MaxOthers}
CanExp(i) == IsInt(heap[i].scalar) /\ Abs(heap[i].scalar[1]) <= ExpMax

CallSoftmax ==
    /\ Going
    /\ \E a \in Nodes, x \in NodeLists :
          /\ CanExp(a) /\ \A k \in 1..Len(x) : CanExp(x[k])
          /\ output' = Num(softmax(heap, a, x))
          /\ call' = Call("softmax", a, x)
          /\ result' = 0
          /\ UNCHANGED <<heap, topological_sorted, calls, root, passes, err, net>>

CallBackward ==
    Going /\ passes < CallsMaxPasses /\ \E r \in Nodes : Pass(r, SUBSET Binary(r))

CallsNext ==
    \/ CallAdd \/ CallRAdd \/ CallMul \/ CallRMul \/ CallPow \/ CallPowMethod
    \/ CallSoftmax \/ CallBackward

SpecCalls == CallsInit /\ [][CallsNext]_vars

(***************************************************************************)
(* Specification of repeated differentiation: the client builds a graph    *)
(* with + and *, possibly misuses it once by adding a node to the operand  *)
(* set of a node below it, then differentiates one root repeatedly,        *)
(* possibly setting gradients back to 0 after a pass.                      *)
(***************************************************************************)
RepInit ==
    /\ heap \in UNION {[1..k -> {Node(R(v), {}, "") : v \in RepLeafVals}] : k \in 1..RepMaxLeaves}
    /\ topological_sorted = <<>>
    /\ calls = <<>>
    /\ root = 0
    /\ passes = 0
    /\ call = [op |-> "Node"]
    /\ result = 0
    /\ err = "none"
    /\ net = <<>>
    /\ output = NoValue

RepReturn(out, c) ==
    /\ passes = 0
    /\ Len(out.heap) <= RepMaxNodes
    /\ call' = c
    /\ heap' = out.heap
    /\ result' = out.res
    /\ err' = out.err
    /\ UNCHANGED <<topological_sorted, calls, root, passes, net, output>>

RepAdd == \E a, b \in Nodes : RepReturn(__add__(heap, a, NodeRef(b)), Call("+", a, NodeRef(b)))
RepMul == \E a, b \in Nodes : RepReturn(__mul__(heap, a, NodeRef(b)), Call("*", a, NodeRef(b)))

\* Node i lies on a cycle of the operand relation.
OnCycle(h, i) == i \in Closure(h, h[i].previous)
Acyclic(h) == \A i \in 1..Len(h) : ~OnCycle(h, i)

\* y._previous.add(x) for a node y reachable from x: the attribute is an
\* ordinary mutable set.
RepMisuse ==
    /\ passes = 0
    /\ Acyclic(heap)
    /\ \E x \in Nodes : \E y \in Reach(heap, x) :
          /\ heap' = [heap EXCEPT ![y].previous = @ \cup {x}]
          /\ call' = Call("_previous.add", y, NodeRef(x))
    /\ result' = 0
    /\ UNCHANGED <<topological_sorted, calls, root, passes, err, net, output>>

Leaves(h) == {i \in 1..Len(h) : h[i].previous = {}}

\* node.gradient = 0 after a pass, for every leaf or for every node reachable
\* from the root of the pass
RepReset ==
    /\ call.op = "backward_propagation"
    /\ passes < RepMaxPasses
    /\ \E kind \in {"leaves", "reachable"} :
          /\ heap' = clear_gradient(heap, SortedSeq(IF kind = "leaves" THEN Leaves(heap)
                                                     ELSE Reach(heap, root)))
          /\ call' = Call("reset", 0, kind)
    /\ result' = 0
    /\ UNCHANGED <<topological_sorted, calls, root, passes, err, net, output>>

\* The first pass starts from any node, every later pass from the same node.
RepBackward ==
    /\ passes < RepMaxPasses
    /\ \E r \in Nodes : (root = 0 \/ r = root) /\ Pass(r, SUBSET Binary(r))

RepNext == RepAdd \/ RepMul \/ RepMisuse \/ RepReset \/ RepBackward

SpecRepeat == RepInit /\ [][RepNext]_vars

(***************************************************************************)
(* Specification of the network: an MLP is built with random weights and   *)
(* trained: each step clears the gradients of the parameters (the first    *)
(* step may skip it), calls the network on a list of fresh input nodes and *)
(* differentiates an output node.                                          *)
(***************************************************************************)
\* The lists of layer widths: non-empty, every width positive.
WidthLists == UNION {[1..k -> 1..MaxWidth] : k \in 1..MaxLayers}

ParamCount(n_inputs, n_outputs) ==
    ParamsBefore(NetDim(n_inputs, n_outputs), Len(n_outputs) + 1, 1)

IsBias(layers, i) == \E l \in 1..Len(layers) : \E j \in 1..Len(layers[l]) : layers[l][j].b = i

\* self.w = [Node(random.uniform(-1,1)) ...]; self.b = Node(0)
NNInit ==
    /\ \E n_inputs \in 1..MaxInputs, n_outputs \in WidthLists :
          /\ net = MLP(n_inputs, n_outputs)
          /\ \E wv \in [1..ParamCount(n_inputs, n_outputs) -> WeightVals] :
                heap = [i \in 1..ParamCount(n_inputs, n_outputs) |->
                          Node(IF IsBias(net, i) THEN ZERO ELSE wv[i], {}, "")]
    /\ topological_sorted = <<>>
    /\ calls = <<>>
    /\ root = 0
    /\ passes = 0
    /\ call = [op |-> "MLP"]
    /\ result = 0
    /\ err = "none"
    /\ output = NoValue

\* The client creates one input node per input and calls the network on the list.
NNForward ==
    /\ Running
    /\ call.op \in {"MLP", "clear_gradient"}
    /\ passes < MaxForward
    /\ \E xs \in [1..Len(net[1][1].w) -> InputVals] :
          LET h0 == heap \o [k \in 1..Len(xs) |-> Node(R(xs[k]), {}, "")]
              x == List([k \in 1..Len(xs) |-> NodeRef(Len(heap) + k)])
          IN  \E out \in {MLP_call(h0, net, 1, x)} :
              /\ heap' = out.heap
              /\ err' = out.err
              /\ output' = IF out.err = "none" THEN out.res ELSE NoValue
              /\ call' = Call("MLP.__call__", 0, x)
    /\ UNCHANGED <<topological_sorted, calls, root, passes, result, net>>

\* The nodes a returned value holds.
OutputNodes(v) ==
    IF v.t = "none" THEN {}
    ELSE IF v.t = "Node" THEN {v.v}
    ELSE {v.v[k].v : k \in 1..Len(v.v)}

\* A pass from an output node; of the iteration orders of the operand sets the
\* two uniform ones are explored (all ascending, all descending).
NNBackward ==
    /\ Running
    /\ call.op = "MLP.__call__"
    /\ \E r \in OutputNodes(output) : Pass(r, {{}, Binary(r)})

NNClear ==
    /\ Running
    /\ call.op \in {"MLP", "backward_propagation"}
    /\ heap' = clear_gradient(heap, MLP_parameters(net))
    /\ call' = Call("clear_gradient", 0, 0)
    /\ UNCHANGED <<topological_sorted, calls, root, passes, result, err, net, output>>

NNNext == NNForward \/ NNBackward \/ NNClear

SpecNN == NNInit /\ [][NNNext]_vars

(***************************************************************************)
(* Vocabulary of the properties.                                           *)
(***************************************************************************)
\* The operand positions of node c: the objects its operator was applied to.
Operands(h, c) ==
    CASE h[c].backward.kind \in {"add", "mul"} -> <<h[c].backward.self, h[c].backward.b>>
      [] h[c].backward.kind \in {"relu", "pow", "sigmoid"} -> <<h[c].backward.self>>
      [] OTHER -> <<>>

\* d(c)/d(k-th operand of c), from the operator's mathematical definition.
LocalD(h, c, k) ==
    CASE h[c].backward.kind = "add" -> ONE
      [] h[c].backward.kind = "mul" -> h[Operands(h, c)[3 - k]].scalar
      [] h[c].backward.kind = "relu" ->
            IF RLt(ZERO, h[Operands(h, c)[1]].scalar) THEN ONE ELSE ZERO
      [] h[c].backward.kind = "pow" ->
            RMul(R(h[c].backward.p), RPow(h[Operands(h, c)[1]].scalar, h[c].backward.p - 1))
      [] h[c].backward.kind = "sigmoid" -> RMul(h[c].scalar, RSub(ONE, h[c].scalar))

\* d(r)/d(n): the sum over the operand paths from r to n of the product of the
\* local derivatives along the path; DerivFrom sums over the operand positions
\* k, k + 1, ... of r.
RECURSIVE Deriv(_, _, _), DerivFrom(_, _, _, _)
Deriv(h, r, n) == IF r = n THEN ONE ELSE DerivFrom(h, r, n, 1)
DerivFrom(h, r, n, k) ==
    IF k > Len(Operands(h, r)) THEN ZERO
    ELSE Eval({RAdd(RMul(LocalD(h, r, k), Deriv(h, c, n)), DerivFrom(h, r, n, k + 1)) :
                 c \in {Operands(h, r)[k]}})

\* One pass has run, from `root`, on a graph whose gradients were all 0.
FreshPass == passes = 1 /\ root # 0

IsLeaf(i, v) == heap[i].backward.kind = "none" /\ heap[i].scalar = R(v)
Kind(i) == heap[i].backward.kind
Self(i) == heap[i].backward.self
Other(i) == heap[i].backward.b

\* x = leaf(2), y = leaf(-3), z = leaf(10), h = relu(x * y + z), differentiated
\* from h: the root is h, its operand q = m + z, and m = x * y.
EndToEnd ==
    /\ FreshPass
    /\ Kind(root) = "relu"
    /\ Kind(Self(root)) = "add"
    /\ Kind(Self(Self(root))) = "mul"
    /\ IsLeaf(Self(Self(Self(root))), 2)
    /\ IsLeaf(Other(Self(Self(root))), -3)
    /\ IsLeaf(Other(Self(root)), 10)

\* C1: after one backward_propagation on a fresh graph built with add, multiply,
\* negate, subtract and relu, every node reachable from the root holds
\* d(root)/d(node), the sum over operand paths of the products of the local
\* derivatives; for h = relu(2 * -3 + 10): h.scalar = 4, x.gradient = -3,
\* y.gradient = 2, z.gradient = 1.
C1_GradientIsDerivative ==
    /\ FreshPass => \A n \in Reach(heap, root) : heap[n].gradient = Deriv(heap, root, n)
    /\ EndToEnd =>
          /\ heap[Self(root)].scalar = R(4) /\ heap[root].scalar = R(4)
          /\ heap[Self(Self(Self(root)))].gradient = R(-3)
          /\ heap[Other(Self(Self(root)))].gradient = R(2)
          /\ heap[Other(Self(root))].gradient = R(1)

C1_Witness == EndToEnd

\* The consumers of node a among the nodes reachable from the root, one entry per
\* operand position holding a.
UsesIn(h, r, a) ==
    {<<c, k>> \in Reach(h, r) \X {1, 2} : k <= Len(Operands(h, c)) /\ Operands(h, c)[k] = a}

Uses(a) == UsesIn(heap, root, a)

\* The sum over the uses U of (local derivative) * (gradient of the consumer).
RECURSIVE SumUsesIn(_, _)
SumUsesIn(h, U) ==
    IF U = {} THEN ZERO
    ELSE LET u == CHOOSE u \in U : TRUE
         IN  RAdd(RMul(LocalD(h, u[1], u[2]), h[u[1]].gradient), SumUsesIn(h, U \ {u}))

SumUses(U) == SumUsesIn(heap, U)

\* C2: contributions to a shared node accumulate: after a pass on a fresh graph
\* a.gradient is the sum of the contributions of every operand position that
\* holds a; c = a + a gives 2 and c = a * a gives 2 * a.scalar although the
\* operand set of c holds a once.
C2_SharedOperandAccumulates ==
    FreshPass =>
        /\ \A a \in Reach(heap, root) \ {root} : heap[a].gradient = SumUses(Uses(a))
        /\ Self(root) # 0 /\ Self(root) = Other(root) =>
              /\ heap[root].previous = {Self(root)}
              /\ Kind(root) = "add" => heap[Self(root)].gradient = R(2)
              /\ Kind(root) = "mul" =>
                    heap[Self(root)].gradient = RMul(R(2), heap[Self(root)].scalar)

\* c = a + a is the root, and a itself is b * b with b shared again.
C2_Witness ==
    /\ FreshPass
    /\ Kind(root) = "add" /\ Self(root) = Other(root)
    /\ Kind(Self(root)) = "mul" /\ Self(Self(root)) = Other(Self(root))
    /\ heap[Self(root)].gradient = R(2)
    /\ heap[Self(Self(root))].gradient = RMul(R(4), heap[Self(Self(root))].scalar)

\* C3: the ordering phase lists every node reachable from the root exactly once,
\* no other node, and every node after all of its operands.
C3_TopologicalOrder ==
    root # 0 =>
        /\ {topological_sorted[i] : i \in 1..Len(topological_sorted)} = Reach(heap, root)
        /\ Len(topological_sorted) = Cardinality(Reach(heap, root))
        /\ \A i \in 1..Len(topological_sorted) :
              \A c \in heap[topological_sorted[i]].previous :
                 \E j \in 1..(i - 1) : topological_sorted[j] = c

\* A diamond: the root's two operands are distinct and share an operand.
Diamond ==
    /\ root # 0
    /\ Cardinality(heap[root].previous) = 2
    /\ \E c, d \in heap[root].previous : c # d /\ heap[c].previous \cap heap[d].previous # {}

C3_Witness == Diamond /\ Len(topological_sorted) >= 4

\* C4: in one pass the root's gradient is set to 1 before any rule runs, the rule
\* of every reachable node runs exactly once, and a node's rule runs after the
\* rules of all its reachable consumers, when its gradient has its final value.
C4_RulesOnceAfterConsumers ==
    root # 0 =>
        /\ calls[1] = [ev |-> "seed", node |-> root, gradient |-> ONE]
        /\ \A i \in 2..Len(calls) : calls[i].ev = "call"
        /\ \A n \in Reach(heap, root) :
              Cardinality({i \in 2..Len(calls) : calls[i].node = n}) = 1
        /\ \A i \in 2..Len(calls) :
              /\ calls[i].node \in Reach(heap, root)
              /\ calls[i].gradient = heap[calls[i].node].gradient
              /\ \A j \in 2..Len(calls) :
                    calls[i].node \in heap[calls[j].node].previous => j < i

C4_Witness == Diamond /\ Len(calls) >= 5 /\ calls[Len(calls)].gradient # ZERO

\* C5: a pass changes gradients only: no node is created, scalar, operator tag,
\* operand set and rule of every node are kept, and so is the gradient of every
\* node the root does not reach.
C5_PassChangesOnlyGradients ==
    [][passes' # passes =>
          /\ Len(heap') = Len(heap)
          /\ \A i \in Nodes :
                /\ heap'[i].scalar = heap[i].scalar
                /\ heap'[i].math_operator = heap[i].math_operator
                /\ heap'[i].previous = heap[i].previous
                /\ heap'[i].backward = heap[i].backward
                /\ i \notin Reach(heap, root') => heap'[i].gradient = heap[i].gradient]_vars

\* A pass has changed gradients below the root and left a node out.
C5_Witness ==
    /\ root # 0
    /\ Reach(heap, root) # Nodes
    /\ \E i \in Reach(heap, root) \ {root} : heap[i].gradient # ZERO

\* The only reachable consumer of node a is relu node r.
OnlyUse(a, r) == Uses(a) = {<<r, 1>>}

\* C9: r = relu(a) has r.scalar = max(0, a.scalar); its rule adds r.gradient to
\* a.gradient when a.scalar > 0 and adds 0 when a.scalar <= 0, also at 0.
C9_ReluGate ==
    \A r \in Nodes : Kind(r) = "relu" =>
        /\ heap[r].scalar = IF RLt(ZERO, heap[Self(r)].scalar) THEN heap[Self(r)].scalar ELSE ZERO
        /\ heap[r].previous = {Self(r)}
        /\ (FreshPass /\ r \in Reach(heap, root) /\ OnlyUse(Self(r), r)) =>
              heap[Self(r)].gradient =
                 IF RLt(ZERO, heap[Self(r)].scalar) THEN heap[r].gradient ELSE ZERO

\* relu of a node holding exactly 0 received a non-zero gradient and blocked it.
C9_Witness ==
    \E r \in Nodes :
        /\ Kind(r) = "relu" /\ heap[Self(r)].scalar = ZERO
        /\ FreshPass /\ r \in Reach(heap, root) /\ OnlyUse(Self(r), r)
        /\ heap[r].gradient # ZERO /\ heap[Self(r)].gradient = ZERO

\* The number an operand of the last call holds.
ValueOf(x) == IF x.t = "Node" THEN heap[x.v].scalar ELSE x.v

\* The last call returned a node created by it.
ReturnedNew == err = "none" /\ result = Len(heap) /\ result # 0

\* C6: r = a ** p returns a new node with r.scalar = a.scalar ** p and operand
\* set {a}, and a pass from r on a fresh graph leaves a.gradient =
\* p * a.scalar ** (p - 1).
C6_PowerOperator ==
    /\ (call.op = "**" /\ ~(heap[call.self].scalar = ZERO /\ call.arg.v[1] < 0)) =>
          /\ ReturnedNew
          /\ heap[result].scalar = RPow(heap[call.self].scalar, call.arg.v[1])
          /\ heap[result].previous = {call.self}
    /\ (FreshPass /\ Kind(root) = "pow") =>
          heap[Self(root)].gradient =
              RMul(R(heap[root].backward.p),
                   RPow(heap[Self(root)].scalar, heap[root].backward.p - 1))

\* C7: a / b, a / c and c / a with a non-zero divisor and a non-zero constant
\* each return a new node that holds the quotient and reaches its node operands.
C7_DivisionReturnsNode ==
    /\ (call.op = "/" /\ ValueOf(call.arg) # ZERO) =>
          /\ ReturnedNew
          /\ heap[result].scalar = RMul(heap[call.self].scalar, RInv(ValueOf(call.arg)))
          /\ call.self \in Reach(heap, result)
          /\ call.arg.t = "Node" => call.arg.v \in Reach(heap, result)
    /\ (call.op = "r/" /\ heap[call.self].scalar # ZERO /\ call.arg.v # ZERO) =>
          /\ ReturnedNew
          /\ heap[result].scalar = RMul(call.arg.v, RInv(heap[call.self].scalar))
          /\ call.self \in Reach(heap, result)

\* C8: for r = sigmoid(a) below the root, a pass on a fresh graph leaves
\* a.gradient = r.scalar * (1 - r.scalar) * r.gradient (a.scalar = 0 and
\* root = r * k give k * 0.25).
C8_SigmoidScalesByUpstream ==
    FreshPass =>
        \A r \in Reach(heap, root) \ {root} :
            (Kind(r) = "sigmoid" /\ OnlyUse(Self(r), r)) =>
                heap[Self(r)].gradient =
                    RMul(RMul(heap[r].scalar, RSub(ONE, heap[r].scalar)), heap[r].gradient)

LastLayer == net[Len(net)]

\* C10: calling an MLP on a list of n_inputs input nodes succeeds and returns the
\* output node(s) of the last layer, a single node when the last width is 1 and
\* a list of that many nodes otherwise, whatever the hidden-layer widths.
C10_MLPCallSucceeds ==
    call.op = "MLP.__call__" =>
        /\ err = "none"
        /\ Len(LastLayer) = 1 =>
              /\ output.t = "Node"
              /\ LastLayer[1].b \in Reach(heap, output.v)
        /\ Len(LastLayer) > 1 =>
              /\ output.t = "list"
              /\ Len(output.v) = Len(LastLayer)
              /\ \A k \in 1..Len(LastLayer) :
                    /\ output.v[k].t = "Node"
                    /\ LastLayer[k].b \in Reach(heap, output.v[k].v)
\* The last call was +, * or a right-form with a str or a list as operand.
BadOperandCall == call.op \in {"+", "r+", "*", "r*"} /\ call.arg.t \in {"str", "list"}

\* C11: +, * and their right-forms given a str or a list fail with an error
\* and return no node, whatever the scalar of the Node operand; no node ever
\* holds a scalar that is not a number.
C11_BadOperandRejected ==
    /\ BadOperandCall => err # "none" /\ result = 0
    /\ WellFormed(heap)

\* C12: the power operation given an exponent that is not a plain number (a
\* Node, a str, a list) raises, creates no node and leaves every node as it
\* was; the method _pow__ raises the AssertionError of its exponent check.
C12_InvalidExponentRejected ==
    [][(call'.op \in {"**", "_pow__"} /\ call'.arg.t # "num") =>
          /\ err' # "none"
          /\ call'.op = "_pow__" => err' = "AssertionError"
          /\ result' = 0
          /\ heap' = heap]_vars

\* _pow__ was given a Node as exponent after a pass had left gradients.
C12_Witness ==
    /\ call.op = "_pow__" /\ call.arg.t = "Node"
    /\ err = "AssertionError"
    /\ Len(heap) >= 3
    /\ \E i \in Nodes : i # root /\ heap[i].gradient # ZERO

RECURSIVE ExpSum(_)
ExpSum(x) == IF x = <<>> THEN ZERO ELSE RAdd(npExp(heap[Head(x)].scalar), ExpSum(Tail(x)))

\* C19: a.softmax(x) returns exp(a.scalar) divided by the sum of exp(xi.scalar)
\* over every xi of the non-empty list x, creates no node and changes no
\* gradient.
C19_SoftmaxScore ==
    [][call'.op = "softmax" =>
          /\ output' = Num(RMul(npExp(heap[call'.self].scalar), RInv(ExpSum(call'.arg))))
          /\ heap' = heap]_vars
\* The layer dimensions d0, d1, ..., dk of the network.
Dim(i) == IF i = 0 THEN Len(net[1][1].w) ELSE Len(net[i])

\* The weight nodes and the bias nodes of every neuron.
WeightsAndBiases ==
    UNION {{net[l][j].w[k] : k \in 1..Len(net[l][j].w)} \cup {net[l][j].b} :
             <<l, j>> \in {<<l, j>> \in (1..Len(net)) \X (1..MaxWidth + 1) : j <= Len(net[l])}}

ParamList == MLP_parameters(net)
ParamSet == Eval({{ps[k] : k \in 1..Len(ps)} : ps \in {ParamList}})

\* C13: parameters() of an MLP of dimensions d0, ..., dk lists every weight and
\* bias node exactly once, sum of (d(i-1) + 1) * d(i) distinct leaves, and
\* clear_gradient sets the gradient of exactly those nodes to 0, keeping every
\* scalar and every other gradient.
C13_ParametersAndClear ==
    /\ [](\A ps \in {ParamSet} :
            /\ Len(ParamList) = SeqSum([i \in 1..Len(net) |-> (Dim(i - 1) + 1) * Dim(i)])
            /\ Cardinality(ps) = Len(ParamList)
            /\ ps = WeightsAndBiases
            /\ \A i \in ps : heap[i].backward.kind = "none" /\ heap[i].previous = {})
    /\ [][call'.op = "clear_gradient" =>
            \A ps \in {ParamSet} :
               /\ Len(heap') = Len(heap)
               /\ \A i \in Nodes :
                     /\ heap'[i].scalar = heap[i].scalar
                     /\ heap'[i].gradient = IF i \in ps THEN ZERO ELSE heap[i].gradient]_vars

\* A network of dimensions 1, 2, 1 (seven parameters) was cleared after a pass
\* that left gradients on parameters and on other nodes.
C13_Witness ==
    /\ call.op = "clear_gradient"
    /\ Len(net) = 2 /\ Len(ParamList) = 7
    /\ root # 0 /\ heap[root].gradient = ONE
    /\ \A i \in ParamSet : heap[i].gradient = ZERO
    /\ \E i \in ParamSet : Deriv(heap, root, i) # ZERO

\* C14: in training steps (clear_gradient; call; backward_propagation on the new
\* output) every node the call creates starts with gradient 0, and after each
\* pass every parameter holds d(output)/d(parameter) of that step alone.
C14_NoResidueAcrossSteps ==
    /\ call.op = "MLP.__call__" =>
          \A r \in OutputNodes(output) :
             \A i \in Reach(heap, r) \ ParamSet : heap[i].gradient = ZERO
    /\ call.op = "backward_propagation" =>
          \A i \in ParamSet : heap[i].gradient = Deriv(heap, root, i)

\* The second pass left a gradient on a parameter that the first step's output,
\* still holding its seed, also depends on.
C14_Witness ==
    /\ call.op = "backward_propagation" /\ passes = 2
    /\ \E i \in ParamSet, o \in Nodes \ Reach(heap, root) :
          /\ heap[o].gradient = ONE /\ heap[o].backward.kind # "none"
          /\ Deriv(heap, o, i) # ZERO
          /\ heap[i].gradient # ZERO
          /\ heap[i].gradient # Deriv(heap, o, i)
\* The root of the last pass is the sum of two distinct leaves.
SumOfTwoLeaves ==
    /\ root # 0 /\ Kind(root) = "add" /\ Self(root) # Other(root)
    /\ Kind(Self(root)) = "none" /\ Kind(Other(root)) = "none"

\* C15: a pass never resets a gradient: on a graph built by the operators it
\* assigns the root's gradient to 1 and adds to the gradient every other
\* reachable node held before the pass the contributions of its consumers;
\* two consecutive passes from r = a + b leave r.gradient = 1, a.gradient = 2
\* and b.gradient = 2.
C15_GradientsCarriedOver ==
    [][(passes' # passes /\ Acyclic(heap)) =>
          /\ heap'[root'].gradient = ONE
          /\ \A n \in Reach(heap, root') \ {root'} :
                heap'[n].gradient =
                    RAdd(heap[n].gradient, SumUsesIn(heap', UsesIn(heap', root', n)))
          /\ (passes = 1 /\ call.op = "backward_propagation" /\ SumOfTwoLeaves) =>
                /\ heap'[root'].gradient = ONE
                /\ heap'[Self(root)].gradient = R(2)
                /\ heap'[Other(root)].gradient = R(2)]_vars

\* Two passes in a row from r = a + b.
C15_Witness ==
    /\ passes = 2 /\ call.op = "backward_propagation" /\ SumOfTwoLeaves
    /\ heap[root].gradient = ONE
    /\ heap[Self(root)].gradient = R(2) /\ heap[Other(root)].gradient = R(2)

\* The second pass from the root starts now, after the nodes `kind` were reset.
SecondPassAfterReset(kind) ==
    /\ passes = 1 /\ passes' = 2 /\ root' = root
    /\ call.op = "reset" /\ call.arg = kind
    /\ Acyclic(heap)

\* C16 as stated: with the gradient of every leaf set to 0 after the first
\* pass, a second pass from the same root leaves on every leaf the gradient the
\* first pass left (the one the log of the first pass recorded).
C16_RepeatableAfterLeafReset ==
    [][SecondPassAfterReset("leaves") =>
          \A i \in 2..Len(calls) :
             calls[i].node \in Leaves(heap) => heap'[calls[i].node].gradient = calls[i].gradient]_vars

\* C16 amended: with the gradient of every node reachable from the root set to
\* 0 after the first pass, a second pass from the same root leaves on every
\* reachable node, leaves included, the gradient the first pass left.
C16_RepeatableAfterFullReset ==
    [][SecondPassAfterReset("reachable") =>
          \A i \in 2..Len(calls) : heap'[calls[i].node].gradient = calls[i].gradient]_vars

\* The root has been differentiated twice, it reaches a node that is neither the
\* root nor a leaf, and every node holds the derivative of the root, not twice
\* that: the gradients were reset in between.
C16_Witness ==
    /\ passes = 2 /\ call.op = "backward_propagation" /\ Acyclic(heap)
    /\ \E m \in Reach(heap, root) \ ({root} \cup Leaves(heap)) : heap[m].gradient # ZERO
    /\ \A n \in Reach(heap, root) : heap[n].gradient = Deriv(heap, root, n)

\* The last call was a pass whose root reaches a cycle of the operand relation.
CyclicPass ==
    /\ call.op = "backward_propagation"
    /\ \E i \in Reach(heap, root) : OnCycle(heap, i)

\* C17 as stated: from a root that reaches a cycle the ordering traversal never
\* terminates, so no such pass ever returns.
C17_CyclicPassNeverReturns == ~CyclicPass

\* C17 amended: from a root that reaches a cycle the ordering traversal
\* terminates, because a node is marked visited before its operands are
\* traversed: it lists every reachable node exactly once, the root last, and
\* the rule of every listed node runs once; some node is listed before one of
\* its operands.
C17_CyclicPassTerminates ==
    CyclicPass =>
        /\ {topological_sorted[i] : i \in 1..Len(topological_sorted)} = Reach(heap, root)
        /\ Len(topological_sorted) = Cardinality(Reach(heap, root))
        /\ topological_sorted[Len(topological_sorted)] = root
        /\ Len(calls) = Len(topological_sorted) + 1
        /\ \E i \in 1..Len(topological_sorted) :
              \E c \in heap[topological_sorted[i]].previous :
                 \A j \in 1..(i - 1) : topological_sorted[j] # c

\* A pass returned from a root that reaches a cycle through three nodes or more.
C17_Witness ==
    /\ CyclicPass
    /\ Len(topological_sorted) >= 3
    /\ \E i \in Reach(heap, root) : OnCycle(heap, i) /\ Cardinality(heap[i].previous) > 2
\* The nodes a step created, and those of them an operator returned as result.
Created == (Len(heap) + 1)..Len(heap')
CreatedResults == {j \in Created : heap'[j].backward.kind # "none"}

\* C18: the operand relation over all nodes is acyclic after any sequence of
\* constructions and operator applications (add, multiply, negate, subtract,
\* relu, sigmoid, power, with node or constant operands): a call never changes
\* an existing node, every node it creates is a leaf wrapping a literal or a
\* result whose operands were created before it, the last one is the node it
\* returns, and +, *, negation, relu, sigmoid and power create one result.
C18_OperandRelationAcyclic ==
    /\ [](/\ Acyclic(heap)
          /\ \A i \in Nodes : \A c \in heap[i].previous : c < i)
    /\ [][heap' # heap /\ passes' = passes =>
            /\ Len(heap') > Len(heap)
            /\ \A i \in Nodes : heap'[i] = heap[i]
            /\ \A j \in Created :
                  /\ j \notin CreatedResults => heap'[j].previous = {}
                  /\ j \in CreatedResults =>
                        heap'[j].previous # {} /\ heap'[j].previous \subseteq 1..(j - 1)
            /\ result' = Len(heap') /\ result' \in CreatedResults
            /\ call'.op \in {"+", "r+", "*", "r*", "neg", "relu", "sigmoid", "_pow__"} =>
                  Cardinality(CreatedResults) = 1]_vars

\* c - a returned: the call created the leaf -1, the negation, the leaf c and
\* the sum, which reaches all of them and a.
C18_Witness ==
    /\ call.op = "r-" /\ err = "none"
    /\ result = Len(heap) /\ Len(heap) >= 5
    /\ Cardinality(Reach(heap, result)) = 5
====
